---- MODULE Spec2Model ----
(***************************************************************************)
(* A model of the azure-code terminal chat client: the context window      *)
(* manager (lib/models/context-manager.ts), the client router              *)
(* (AIClientManager in lib/ai-clients) and the stream consumer of the App  *)
(* component (components/App, handleSendMessage).                          *)
(***************************************************************************)
EXTENDS Integers, Sequences, FiniteSets, TLC

VARIABLES
    \* ---- ContextManager and one caller of prepareContext
    config,        \* ContextManager.config
    now,           \* the wall clock read by Date.now()
    systemPrompt,  \* argument systemPrompt of prepareContext
    messages,      \* argument messages of prepareContext (the full history)
    fileContents,  \* argument fileContents of prepareContext
    calls,         \* number of prepareContext calls made so far
    result,        \* value returned by the latest call
    prevResult,    \* value returned by the call before the latest
    lastCall,      \* config and clock read by the latest call
    \* ---- App: the React state and the closures of handleSendMessage
    state,         \* AppState: currentModel, messages, isLoading, error
    turns,         \* one record per handleSendMessage invocation that sent a message
    mounted,       \* the Ink application is rendered: exit() has not been called
    \* ---- AIClientManager.streamCompletion and the adapter it delegates to
    router,        \* the router generator: pc, modelId, error, chunks yielded
    adapter,       \* the delegated adapter generator: pc, provider, locals, chunks yielded
    invoked,       \* per provider, the streamCompletion calls its adapter received
    network,       \* the provider request: whether it was opened, the events not yet delivered
    \* ---- the configuration of the provider clients
    env,           \* per provider, the apiKey and endpoint its client was constructed with
    validated,     \* per provider, the value validateConfig last returned
    \* ---- one caller of the token accounting operations
    measured       \* the latest estimateTokens / calculateTotalTokens / exceedsContextWindow call

ctxVars ==
    <<config, systemPrompt, messages, fileContents, calls, result, prevResult, lastCall>>

appVars == <<state, turns, mounted>>

routerVars == <<router, adapter, invoked, network>>

cfgVars == <<env, validated>>

tokVars == <<measured>>

vars == <<now, ctxVars, appVars, routerVars, cfgVars, tokVars>>

\* no token accounting call was made yet
NotMeasured == [op |-> "none"]

\* ------------------------------------------------------------------ bounds
\* longest enumerated history
MaxHist == 3
\* handleSendMessage invocations followed
MaxTurns == 1
\* non-terminal chunks one turn receives
MaxChunks == 3
\* handleSendMessage invocations followed where only their overlap is studied
MaxSends == 2
\* provider events of one request
MaxEvents == 3
\* last value of the clock
MaxClock == 1
\* number of prepareContext calls followed
MaxCalls == 2

\* ------------------------------------------------------- general helpers
Reverse(s) == [i \in 1..Len(s) |-> s[Len(s) + 1 - i]]

RECURSIVE SumSeq(_)
SumSeq(s) == IF s = <<>> THEN 0 ELSE Head(s) + SumSeq(Tail(s))

RECURSIVE SeqsUpTo(_, _)
SeqsUpTo(S, n) ==
    IF n = 0 THEN {<<>>}
    ELSE LET shorter == SeqsUpTo(S, n - 1)
         IN  shorter \cup {Append(s, x) : s \in {t \in shorter : Len(t) = n - 1}, x \in S}

\* spread of an object of optional overrides over a base object: {...base, ...upd}
Spread(base, upd) ==
    [k \in DOMAIN base |-> IF k \in DOMAIN upd THEN upd[k] ELSE base[k]]

\* ----------------------------------------------------------- model registry
\* MODELS of lib/models/config: provider and contextWindow of each model id
MODELS ==
    [m \in {"claude-opus-4.5", "claude-sonnet-4.5", "claude-haiku-4.5",
            "gpt-5.2-chat", "gpt-5.1-chat", "gpt-4o-mini",
            "Kimi-K2-Thinking", "Mistral-Large-3", "grok-4-fast-non-reasoning"} |->
        [provider |->
            CASE m \in {"claude-opus-4.5", "claude-sonnet-4.5", "claude-haiku-4.5"} -> "anthropic"
              [] m \in {"gpt-5.2-chat", "gpt-5.1-chat", "gpt-4o-mini"} -> "openai"
              [] m = "Kimi-K2-Thinking" -> "moonshot"
              [] m = "Mistral-Large-3" -> "mistral"
              [] OTHER -> "grok",
         contextWindow |-> IF m = "claude-opus-4.5" THEN 200000 ELSE 128000]]

\* ---------------------------------------------------------- ContextManager
DEFAULT_CONTEXT_CONFIG ==
    [maxTokens |-> 128000, slidingWindowSize |-> 4000,
     systemPromptTokens |-> 1000, fileContentTokens |-> 10000]

\* "Reserve 1k for response"
ResponseReserve == 1000

\* constructor(modelId, customConfig)
NewContextManager(modelId, customConfig) ==
    LET maxTokens == IF modelId \in DOMAIN MODELS /\ MODELS[modelId].contextWindow # 0
                     THEN MODELS[modelId].contextWindow
                     ELSE DEFAULT_CONTEXT_CONFIG.maxTokens
    IN  Spread([DEFAULT_CONTEXT_CONFIG EXCEPT !.maxTokens = maxTokens], customConfig)

\* the estimate with a truncating division
estimateTokensFloor(text) == Len(text) \div 4

\* Math.ceil(text.length / 4)
estimateTokens(text) == (Len(text) + 3) \div 4

\* a Message carries the optional field tokenCount or not
HasTokenCount(msg) == "tokenCount" \in DOMAIN msg

\* msg.tokenCount || this.estimateTokens(msg.content)
msgTokens(msg) ==
    IF HasTokenCount(msg) /\ msg.tokenCount # 0
    THEN msg.tokenCount
    ELSE estimateTokens(msg.content)

\* messages.reduce((total, msg) => total + (msg.tokenCount || estimate), 0)
calculateTotalTokens(msgs) == SumSeq([i \in 1..Len(msgs) |-> msgTokens(msgs[i])])

\* the three-character code fence of createFileContextMessage, written with
\* another character of the same length
Fence == "###"

\* the formatted text of one file in createFileContextMessage
FileBlock(file) ==
    LET languageTag == IF file.language # "" THEN Fence \o file.language ELSE Fence
        truncatedIndicator == IF file.truncated THEN "\n... (truncated)" ELSE ""
    IN  "File: " \o file.path \o "\n" \o languageTag \o "\n" \o file.content
            \o truncatedIndicator \o "\n" \o Fence

\* fileContents.map(FileBlock).join('\n\n')
RECURSIVE JoinBlocks(_)
JoinBlocks(files) ==
    IF files = <<>> THEN ""
    ELSE IF Len(files) = 1 THEN FileBlock(files[1])
    ELSE FileBlock(files[1]) \o "\n\n" \o JoinBlocks(Tail(files))

createFileContextMessage(files, clock) ==
    LET content == JoinBlocks(files)
    IN  [id |-> "file-context-" \o ToString(clock),
         role |-> "user",
         content |-> "Here are the relevant files:\n\n" \o content,
         timestamp |-> clock,
         tokenCount |-> estimateTokens(content),
         metadata |-> "file-context"]

\* the synthetic system message of prepareContext
SystemMessage(prompt, clock) ==
    [id |-> "system", role |-> "system", content |-> prompt,
     timestamp |-> clock, tokenCount |-> estimateTokens(prompt)]

\* fileContents is an optional argument: present says whether it was passed
FilesGiven(fc) == fc.present

\* maxTokens - systemPromptTokens - (fileContents ? fileContentTokens : 0) - 1000
availableBudget(cfg, fc) ==
    cfg.maxTokens - cfg.systemPromptTokens
        - (IF FilesGiven(fc) THEN cfg.fileContentTokens ELSE 0) - ResponseReserve

\* the role test left out: no history message is skipped
SkipsNothing(msg) == FALSE

\* m => m.role !== 'system'
NotSystemRole(m) == m.role # "system"

\* "if (msg.role === 'system') continue"
SkipsMessage(msg) == msg.role = "system"

\* "slidingWindowTokens + msgTokens <= this.config.slidingWindowSize"
FitsWindow(windowTokens, tokens, cfg) == windowTokens + tokens <= cfg.slidingWindowSize

\* Phase 1 with "continue" in place of "break": a message that does not fit is
\* passed over and older ones are still admitted
RECURSIVE SlidingWindowContinue(_, _, _, _, _)
SlidingWindowContinue(rev, i, included, windowTokens, cfg) ==
    IF i > Len(rev) THEN [included |-> included, tokens |-> windowTokens]
    ELSE IF rev[i].role = "system"
         THEN SlidingWindowContinue(rev, i + 1, included, windowTokens, cfg)
    ELSE IF windowTokens + msgTokens(rev[i]) <= cfg.slidingWindowSize
         THEN SlidingWindowContinue(rev, i + 1, <<rev[i]>> \o included,
                                    windowTokens + msgTokens(rev[i]), cfg)
         ELSE SlidingWindowContinue(rev, i + 1, included, windowTokens, cfg)

\* Phase 1: the loop over reversedMessages; included is includedMessages
RECURSIVE SlidingWindow(_, _, _, _, _)
SlidingWindow(rev, i, included, windowTokens, cfg) ==
    IF i > Len(rev) THEN [included |-> included, tokens |-> windowTokens]
    ELSE IF SkipsMessage(rev[i]) THEN SlidingWindow(rev, i + 1, included, windowTokens, cfg)
    ELSE IF FitsWindow(windowTokens, msgTokens(rev[i]), cfg)
         THEN SlidingWindow(rev, i + 1, <<rev[i]>> \o included,
                            windowTokens + msgTokens(rev[i]), cfg)
         ELSE [included |-> included, tokens |-> windowTokens]

\* result.findIndex(m => m.role !== 'system'), 1-based; 0 when there is none
FindInsertIndex(res) ==
    IF \E j \in 1..Len(res) : res[j].role # "system"
    THEN CHOOSE j \in 1..Len(res) :
            /\ res[j].role # "system"
            /\ \A k \in 1..(j - 1) : res[k].role = "system"
    ELSE 0

\* result.splice(insertIndex, 0, msg), or result.push(msg) when there is no index
InsertOlder(res, msg) ==
    LET j == FindInsertIndex(res)
    IN  IF j # 0
        THEN SubSeq(res, 1, j - 1) \o <<msg>> \o SubSeq(res, j, Len(res))
        ELSE Append(res, msg)

\* "totalTokens + msgTokens <= availableBudget"
FitsBudget(totalTokens, tokens, budget) == totalTokens + tokens <= budget

\* Phase 2: the loop over olderMessages.reverse()
RECURSIVE Backfill(_, _, _, _, _)
Backfill(older, i, res, totalTokens, budget) ==
    IF i > Len(older) THEN res
    ELSE IF SkipsMessage(older[i]) THEN Backfill(older, i + 1, res, totalTokens, budget)
    ELSE IF FitsBudget(totalTokens, msgTokens(older[i]), budget)
         THEN Backfill(older, i + 1, InsertOlder(res, older[i]),
                       totalTokens + msgTokens(older[i]), budget)
         ELSE res

\* reversedMessages.slice(includedMessages.length), then reversed again
OlderMessages(rev, included) ==
    Reverse(SubSeq(rev, Len(included) + 1, Len(rev)))

\* "if (fileContents && fileContents.length > 0)"
EmitsFileContext(fc) == FilesGiven(fc) /\ Len(fc.list) > 0

prepareContext(cfg, clock, prompt, history, fc) ==
    LET systemMessage == SystemMessage(prompt, clock)
        budget == availableBudget(cfg, fc)
        fileMsgs == IF EmitsFileContext(fc)
                    THEN <<createFileContextMessage(fc.list, clock)>>
                    ELSE <<>>
        head == <<systemMessage>> \o fileMsgs
        rev == Reverse(history)
        win == SlidingWindow(rev, 1, <<>>, 0, cfg)
        withWindow == head \o win.included
        \* "totalTokens += systemMessage.tokenCount || 0", the same for the file message
        totalTokens == SumSeq([j \in 1..Len(head) |-> head[j].tokenCount]) + win.tokens
        remainingBudget == budget - totalTokens
    IN  IF remainingBudget > 0
        THEN Backfill(OlderMessages(rev, win.included), 1, withWindow, totalTokens, budget)
        ELSE withWindow

\* --------------------------------------------- inputs of the context manager
\* a history message of kind k at position i of the history
HistoryMessage(k, i) ==
    LET base == [id |-> "m" \o ToString(i), timestamp |-> i]
    IN  CASE k = "user"   -> base @@ [role |-> "user", content |-> "abcde"]
          [] k = "reply"  -> base @@ [role |-> "assistant", content |-> "ok", tokenCount |-> 600]
          [] k = "long"   -> base @@ [role |-> "assistant", content |-> "long", tokenCount |-> 3000]
          [] k = "zero"   -> base @@ [role |-> "assistant", content |-> "abcd", tokenCount |-> 0]
          [] OTHER        -> base @@ [role |-> "system", content |-> "note"]

MessageKinds == {"user", "reply", "long", "zero", "system"}

HistoryOf(kinds) == [i \in 1..Len(kinds) |-> HistoryMessage(kinds[i], i)]

\* ten messages of 600 tokens each
TenMessages == [i \in 1..10 |-> HistoryMessage("reply", i)]

Histories == {HistoryOf(ks) : ks \in SeqsUpTo(MessageKinds, MaxHist)} \cup {TenMessages}

SystemPrompts == {"You are Azure Code."}

FileA == [path |-> "a.ts", content |-> "let a = 1;", language |-> "typescript", truncated |-> FALSE]
FileB == [path |-> "b", content |-> "bbbb", language |-> "", truncated |-> TRUE]

FileInputs ==
    {[present |-> FALSE, list |-> <<>>],
     [present |-> TRUE, list |-> <<>>],
     [present |-> TRUE, list |-> <<FileA, FileB>>]}

\* the customConfig objects callers pass to the constructor
CustomConfigs ==
    {<<>>,
     [maxTokens |-> 5000, fileContentTokens |-> 500],
     [maxTokens |-> 8000, slidingWindowSize |-> 1000, fileContentTokens |-> 1000]}

\* the updates callers pass to updateConfig
ConfigUpdates ==
    {[maxTokens |-> 2000],
     [maxTokens |-> 8000, slidingWindowSize |-> 1000]}

\* ------------------------------------------------------------------ actions
\* a caller invokes prepareContext(systemPrompt, messages, fileContents)
CallPrepareContext ==
    /\ calls < MaxCalls
    /\ calls' = calls + 1
    /\ prevResult' = result
    /\ result' = prepareContext(config, now, systemPrompt, messages, fileContents)
    /\ lastCall' = [config |-> config, now |-> now]
    /\ UNCHANGED <<config, now, systemPrompt, messages, fileContents, appVars, routerVars, cfgVars, tokVars>>

\* updateConfig(updates)
UpdateConfig(updates) ==
    /\ config' = Spread(config, updates)
    /\ config' # config
    /\ UNCHANGED <<now, systemPrompt, messages, fileContents, calls, result, prevResult, lastCall>>
    /\ UNCHANGED <<appVars, routerVars, cfgVars, tokVars>>

\* a millisecond passes
ClockTick ==
    /\ now < MaxClock
    /\ now' = now + 1
    /\ UNCHANGED <<ctxVars, appVars, routerVars, cfgVars, tokVars>>

CtxNext ==
    \/ CallPrepareContext
    \/ \E u \in ConfigUpdates : UpdateConfig(u)
    \/ ClockTick

\* ------------------------------------------- callers of the token accounting
\* exceedsContextWindow(messages)
exceedsContextWindow(cfg, msgs) == calculateTotalTokens(msgs) > cfg.maxTokens

\* BaseAIClient.estimateTokens(text), the estimator of the provider adapters
clientEstimateTokens(text) == (Len(text) + 3) \div 4

\* the texts whose tokens callers estimate
Texts == {"", "abc", "abcd", "abcde", "You are Azure Code."}

\* the customConfig objects of the managers whose accounting is called
TokenConfigs == CustomConfigs \cup {[maxTokens |-> 6000]}

\* contextManager.estimateTokens(text)
CallEstimateTokens(text) ==
    /\ measured' = [op |-> "estimateTokens", text |-> text,
                    value |-> estimateTokens(text)]
    /\ UNCHANGED <<now, ctxVars, appVars, routerVars, cfgVars>>

\* this.estimateTokens(text) inside a provider adapter
CallClientEstimateTokens(text) ==
    /\ measured' = [op |-> "BaseAIClient.estimateTokens", text |-> text,
                    value |-> clientEstimateTokens(text)]
    /\ UNCHANGED <<now, ctxVars, appVars, routerVars, cfgVars>>

\* contextManager.calculateTotalTokens(messages)
CallCalculateTotalTokens ==
    /\ measured' = [op |-> "calculateTotalTokens", messages |-> messages,
                    value |-> calculateTotalTokens(messages)]
    /\ UNCHANGED <<now, ctxVars, appVars, routerVars, cfgVars>>

\* contextManager.exceedsContextWindow(messages)
CallExceedsContextWindow ==
    /\ measured' = [op |-> "exceedsContextWindow", messages |-> messages,
                    maxTokens |-> config.maxTokens,
                    value |-> exceedsContextWindow(config, messages)]
    /\ UNCHANGED <<now, ctxVars, appVars, routerVars, cfgVars>>

TokensNext ==
    \/ \E text \in Texts : CallEstimateTokens(text)
    \/ \E text \in Texts : CallClientEstimateTokens(text)
    \/ CallCalculateTotalTokens
    \/ CallExceedsContextWindow
    \/ CallPrepareContext

\* ===================================================== App: stream consumer
\* error: string | null, the null written as the empty string
NoError == ""

\* useState initial value; storage.getActiveModel() is the default model
InitialAppState ==
    [currentModel |-> "claude-sonnet-4.5", messages |-> <<>>,
     isLoading |-> FALSE, showModelSelector |-> FALSE, error |-> NoError]

\* the texts a user submits as a chat message
UserInputs == {"hi"}

\* the text increments a provider streams, in order
DeltaScript == <<"Hel", "lo, ", "world">>

Delta(i) == DeltaScript[((i - 1) % Len(DeltaScript)) + 1]

RECURSIVE ScriptText(_)
ScriptText(n) == IF n = 0 THEN "" ELSE ScriptText(n - 1) \o Delta(n)

\* the messages an adapter's error carries once handleError has prefixed it
StreamErrors == {"anthropic API error: Connection error."}

\* the n-th non-terminal chunk of a stream: the running token estimate of the
\* text so far
DeltaChunk(n) ==
    [delta |-> Delta(n), done |-> FALSE, tokenCount |-> estimateTokens(ScriptText(n))]

\* the terminal chunk after n non-terminal ones
TerminalChunk(n) ==
    [delta |-> "", done |-> TRUE, tokenCount |-> estimateTokens(ScriptText(n))]

\* the number of non-terminal chunks among chunks
RECURSIVE DeltaCount(_)
DeltaCount(chunks) ==
    IF chunks = <<>> THEN 0
    ELSE (IF Head(chunks).done THEN 0 ELSE 1) + DeltaCount(Tail(chunks))

\* userMessage of handleSendMessage
UserMessage(content, clock) ==
    [id |-> "user-" \o ToString(clock), role |-> "user",
     content |-> content, timestamp |-> clock]

\* assistantMessage of handleSendMessage
AssistantMessage(modelId, clock) ==
    [id |-> "assistant-" \o ToString(clock), role |-> "assistant",
     content |-> "", timestamp |-> clock, modelId |-> modelId]

\* the closure of one handleSendMessage invocation once the render loop started
NewTurn(modelId, clock) ==
    [assistantId |-> AssistantMessage(modelId, clock).id,
     modelId |-> modelId,
     pc |-> "streaming",
     accumulatedContent |-> "",
     finalTokenCount |-> 0,
     isComplete |-> FALSE,
     renderInterval |-> TRUE,
     received |-> <<>>]

\* the data loop assigns the delta over the accumulator
OverwriteContent(acc, chunk) == IF ~chunk.done THEN chunk.delta ELSE acc

\* "if (!chunk.done) accumulatedContent += chunk.delta"
AccumulateContent(acc, chunk) == IF ~chunk.done THEN acc \o chunk.delta ELSE acc

\* "if (!chunk.done) finalTokenCount = chunk.tokenCount || 0"
AccumulateTokens(count, chunk) ==
    IF chunk.done THEN count
    ELSE IF "tokenCount" \in DOMAIN chunk THEN chunk.tokenCount ELSE 0

\* { ...msg, content: accumulatedContent, tokenCount: finalTokenCount }
FlushedMessage(msg, turn) ==
    [content |-> turn.accumulatedContent, tokenCount |-> turn.finalTokenCount] @@ msg

\* prev.messages.map(msg => msg.id === assistantMessage.id ? flushed : msg)
FlushMessages(msgs, turn) ==
    [j \in 1..Len(msgs) |->
        IF msgs[j].id = turn.assistantId THEN FlushedMessage(msgs[j], turn) ELSE msgs[j]]

\* setState(prev => next): React drops the update of a component that is no
\* longer mounted
setState(next) == IF mounted THEN next ELSE state

\* handleSendMessage(content) for a content that is no command, up to the
\* first await of the data loop: both messages are added, the render loop is
\* started and the stream is requested
handleSendMessage(content) ==
    /\ mounted
    /\ state' = [state EXCEPT
            !.messages = state.messages
                \o <<UserMessage(content, now), AssistantMessage(state.currentModel, now)>>,
            !.isLoading = TRUE,
            !.error = NoError]
    /\ turns' = Append(turns, NewTurn(state.currentModel, now))
    /\ UNCHANGED <<now, ctxVars, routerVars, cfgVars, tokVars, mounted>>

\* the user submits a chat message
SendMessage(content) ==
    /\ Len(turns) < MaxTurns
    /\ handleSendMessage(content)

\* the user submits a chat message, whatever the state of earlier turns:
\* neither ChatInput.handleSubmit nor handleSendMessage looks at isLoading
SubmitAgain(content) ==
    /\ Len(turns) < MaxSends
    /\ handleSendMessage(content)

\* handleSendMessage("/clear") and handleSendMessage("/clearall")
ClearMessages ==
    /\ mounted
    /\ state.messages # <<>>
    /\ state' = [state EXCEPT !.messages = <<>>]
    /\ UNCHANGED <<turns, now, ctxVars, routerVars, cfgVars, tokVars, mounted>>

\* the models the user picks in the ModelSelector
SelectableModels == {"claude-sonnet-4.5", "gpt-5.2-chat"}

\* StorageManager.getConversation(modelId).messages: the App calls neither
\* saveConversation nor addMessage, so state.conversations stays empty
getConversation(modelId) == <<>>

\* handleModelSelect(modelId): the ModelSelector offers every model, the
\* current one included
SelectModel(modelId) ==
    /\ mounted
    /\ state' = [state EXCEPT !.showModelSelector = FALSE,
                               !.currentModel = modelId, !.messages = <<>>]
    /\ state' # state
    /\ UNCHANGED <<turns, now, ctxVars, routerVars, cfgVars, tokVars, mounted>>

\* a render loop whose callback never clears its interval
NeverCleared(turn) == TRUE

\* "if (isComplete) clearInterval(renderInterval)": whether the interval is
\* still set after a callback
StillSet(turn) == ~turn.isComplete

\* one callback of the render loop's setInterval
RenderTick(t) ==
    /\ turns[t].renderInterval
    /\ state' = setState([state EXCEPT !.messages = FlushMessages(state.messages, turns[t])])
    /\ turns' = [turns EXCEPT ![t].renderInterval = StillSet(turns[t])]
    /\ UNCHANGED <<now, ctxVars, routerVars, cfgVars, tokVars, mounted>>

\* a data loop that writes each chunk straight into the message list
ReceiveChunkAndRender(t, chunk) ==
    /\ turns[t].pc = "streaming"
    /\ turns' = [turns EXCEPT
            ![t].accumulatedContent = AccumulateContent(turns[t].accumulatedContent, chunk),
            ![t].finalTokenCount = AccumulateTokens(turns[t].finalTokenCount, chunk),
            ![t].received = Append(turns[t].received, chunk)]
    /\ state' = [state EXCEPT !.messages = FlushMessages(state.messages, turns'[t])]
    /\ UNCHANGED <<now, ctxVars, routerVars, cfgVars, tokVars, mounted>>

\* one iteration of the data loop: the stream yields chunk
ReceiveChunk(t, chunk) ==
    /\ turns[t].pc = "streaming"
    /\ turns' = [turns EXCEPT
            ![t].accumulatedContent = AccumulateContent(turns[t].accumulatedContent, chunk),
            ![t].finalTokenCount = AccumulateTokens(turns[t].finalTokenCount, chunk),
            ![t].received = Append(turns[t].received, chunk)]
    /\ UNCHANGED <<state, now, ctxVars, routerVars, cfgVars, tokVars, mounted>>

\* the stream yields its next non-terminal chunk
ReceiveDelta(t) ==
    /\ DeltaCount(turns[t].received) < MaxChunks
    /\ ReceiveChunk(t, DeltaChunk(DeltaCount(turns[t].received) + 1))

\* the stream yields its terminal chunk
ReceiveTerminal(t) ==
    /\ \A j \in 1..Len(turns[t].received) : ~turns[t].received[j].done
    /\ ReceiveChunk(t, TerminalChunk(DeltaCount(turns[t].received)))

\* the stream ends: the data loop exits, isComplete is set and the final
\* update is applied
StreamEnds(t) ==
    /\ turns[t].pc = "streaming"
    /\ turns' = [turns EXCEPT ![t].pc = "done", ![t].isComplete = TRUE]
    /\ state' = setState([state EXCEPT
            !.isLoading = FALSE,
            !.messages = FlushMessages(state.messages, turns[t])])
    /\ UNCHANGED <<now, ctxVars, routerVars, cfgVars, tokVars, mounted>>

\* the stream throws: the catch block of handleSendMessage
StreamThrows(t, message) ==
    /\ turns[t].pc = "streaming"
    /\ turns' = [turns EXCEPT ![t].pc = "failed"]
    /\ state' = setState([state EXCEPT !.isLoading = FALSE, !.error = message])
    /\ UNCHANGED <<now, ctxVars, routerVars, cfgVars, tokVars, mounted>>

\* handleSendMessage("/exit" | "/quit" | "/q") and Ctrl+C: exit() of Ink's
\* useApp unmounts the application; nothing else is done
Exit ==
    /\ mounted
    /\ mounted' = FALSE
    /\ UNCHANGED <<state, turns, now, ctxVars, routerVars, cfgVars, tokVars>>

\* a millisecond passes
AppClockTick ==
    /\ now < MaxClock
    /\ now' = now + 1
    /\ UNCHANGED <<state, turns, ctxVars, routerVars, cfgVars, tokVars, mounted>>

\* ------------------------------------------------------- slash commands
\* SLASH_COMMANDS: name, aliases, requiresArgs
SLASH_COMMANDS ==
    <<[name |-> "model", aliases |-> {}, requiresArgs |-> FALSE],
      [name |-> "clear", aliases |-> {}, requiresArgs |-> FALSE],
      [name |-> "clearall", aliases |-> {}, requiresArgs |-> FALSE],
      [name |-> "workspace", aliases |-> {}, requiresArgs |-> FALSE],
      [name |-> "file", aliases |-> {}, requiresArgs |-> TRUE],
      [name |-> "files", aliases |-> {}, requiresArgs |-> TRUE],
      [name |-> "search", aliases |-> {}, requiresArgs |-> TRUE],
      [name |-> "find", aliases |-> {}, requiresArgs |-> TRUE],
      [name |-> "ls", aliases |-> {"list", "dir"}, requiresArgs |-> FALSE],
      [name |-> "help", aliases |-> {"?", "commands"}, requiresArgs |-> FALSE],
      [name |-> "tokens", aliases |-> {}, requiresArgs |-> FALSE],
      [name |-> "export", aliases |-> {}, requiresArgs |-> FALSE],
      [name |-> "exit", aliases |-> {"quit", "q"}, requiresArgs |-> FALSE]>>

\* this.commands after registerCommands(): the keys of the Map
RegisteredNames ==
    UNION {{SLASH_COMMANDS[j].name} \cup SLASH_COMMANDS[j].aliases :
                j \in 1..Len(SLASH_COMMANDS)}

\* this.commands.get(commandName), for a registered name
CommandDefinition(commandName) ==
    SLASH_COMMANDS[CHOOSE j \in 1..Len(SLASH_COMMANDS) :
        commandName = SLASH_COMMANDS[j].name \/ commandName \in SLASH_COMMANDS[j].aliases]

\* an input is the sequence of its characters
Whitespace == {" ", "\t", "\n"}

\* the string of a sequence of characters
RECURSIVE Join(_)
Join(cs) == IF cs = <<>> THEN "" ELSE Head(cs) \o Join(Tail(cs))

RECURSIVE TrimStart(_)
TrimStart(cs) ==
    IF cs # <<>> /\ Head(cs) \in Whitespace THEN TrimStart(Tail(cs)) ELSE cs

\* input.trim()
Trim(cs) == Reverse(TrimStart(Reverse(TrimStart(cs))))

UpperCase == <<"A", "B", "C", "D", "E", "F", "G", "H", "I", "J", "K", "L", "M",
               "N", "O", "P", "Q", "R", "S", "T", "U", "V", "W", "X", "Y", "Z">>
LowerCase == <<"a", "b", "c", "d", "e", "f", "g", "h", "i", "j", "k", "l", "m",
               "n", "o", "p", "q", "r", "s", "t", "u", "v", "w", "x", "y", "z">>

\* toLowerCase()
ToLowerCase(cs) ==
    [j \in 1..Len(cs) |->
        IF \E k \in 1..Len(UpperCase) : UpperCase[k] = cs[j]
        THEN LowerCase[CHOOSE k \in 1..Len(UpperCase) : UpperCase[k] = cs[j]]
        ELSE cs[j]]

\* split(/\s+/): current is the part being read, inGap says the last character
\* was whitespace
RECURSIVE Split(_, _, _)
Split(cs, current, inGap) ==
    IF cs = <<>> THEN <<current>>
    ELSE IF Head(cs) \in Whitespace
         THEN IF inGap THEN Split(Tail(cs), current, TRUE)
              ELSE <<current>> \o Split(Tail(cs), <<>>, TRUE)
    ELSE Split(Tail(cs), Append(current, Head(cs)), FALSE)

\* commandParser.isCommand(input)
isCommand(input) ==
    LET trimmed == Trim(input) IN trimmed # <<>> /\ Head(trimmed) = "/"

\* commandParser.parse(input): command, args, isValid
parse(input) ==
    LET trimmed == Trim(input)
    IN  IF ~isCommand(trimmed)
        THEN [command |-> "", args |-> <<>>, isValid |-> FALSE]
        ELSE LET parts == Split(Tail(trimmed), <<>>, FALSE)
                 commandName == Join(ToLowerCase(parts[1]))
                 args == Tail(parts)
                 isValid == commandName \in RegisteredNames
                 hasRequiredArgs ==
                    \/ ~isValid
                    \/ ~CommandDefinition(commandName).requiresArgs
                    \/ Len(args) > 0
             IN  [command |-> commandName,
                  args |-> [j \in 1..Len(args) |-> Join(args[j])],
                  isValid |-> isValid /\ hasRequiredArgs]

\* what the user types and submits
TypedInputs ==
    {<<"h", "i">>,
     <<"/", "h", "e", "l", "p">>,
     <<"/", "H", "e", "l", "p">>,
     <<"/", "?">>,
     <<"/", "t", "o", "k", "e", "n", "s">>,
     <<"/", "l", "s">>,
     <<"/", "l", "i", "s", "t">>,
     <<"/", "f", "i", "l", "e">>,
     <<"/", "f", "i", "l", "e", " ", "a">>,
     <<"/", "b", "o", "g", "u", "s">>,
     <<"/", " ", "l", "s">>,
     <<"/", "m", "o", "d", "e", "l">>,
     <<"/", "c", "l", "e", "a", "r">>,
     <<"/", "c", "l", "e", "a", "r", "a", "l", "l">>,
     <<"/", "q">>}

\* handleSendMessage(content) for any content: the command branch, and the
\* chat message every path that does not return ends in
SubmitInput(input) ==
    LET parsed == parse(input)
    IN  /\ mounted
        /\ IF isCommand(input) /\ ~parsed.isValid
           THEN /\ state' = [state EXCEPT !.error = "Unknown command: " \o parsed.command]
                /\ UNCHANGED <<turns, now, ctxVars, routerVars, cfgVars, tokVars, mounted>>
           ELSE IF isCommand(input) /\ parsed.command = "model"
           THEN /\ state' = [state EXCEPT !.showModelSelector = TRUE]
                /\ UNCHANGED <<turns, now, ctxVars, routerVars, cfgVars, tokVars, mounted>>
           ELSE IF isCommand(input) /\ parsed.command \in {"clear", "clearall"}
           THEN /\ state' = [state EXCEPT !.messages = <<>>]
                /\ UNCHANGED <<turns, now, ctxVars, routerVars, cfgVars, tokVars, mounted>>
           ELSE IF isCommand(input) /\ parsed.command \in {"exit", "quit", "q"}
           THEN Exit
           ELSE /\ Len(turns) < MaxTurns
                /\ handleSendMessage(Join(input))

\* the inputs of a session, commands included
CommandNext ==
    \/ \E input \in TypedInputs : SubmitInput(input)
    \/ AppClockTick
    \/ \E t \in 1..Len(turns) : RenderTick(t)
    \/ \E t \in 1..Len(turns) : ReceiveDelta(t)
    \/ \E t \in 1..Len(turns) : StreamEnds(t)

AppNext ==
    \/ \E content \in UserInputs : SendMessage(content)
    \/ ClearMessages
    \/ \E t \in 1..Len(turns) : RenderTick(t)
    \/ \E t \in 1..Len(turns) : ReceiveDelta(t)
    \/ \E t \in 1..Len(turns) : ReceiveTerminal(t)
    \/ \E t \in 1..Len(turns) : StreamEnds(t)
    \/ \E t \in 1..Len(turns), message \in StreamErrors : StreamThrows(t, message)
    \/ AppClockTick

\* one conversation that is never cleared and whose streams end normally:
\* submissions, chunks, ticks, the ends of streams
TurnNext ==
    \/ \E content \in UserInputs : SendMessage(content)
    \/ \E t \in 1..Len(turns) : RenderTick(t)
    \/ \E t \in 1..Len(turns) : ReceiveDelta(t)
    \/ \E t \in 1..Len(turns) : ReceiveTerminal(t)
    \/ \E t \in 1..Len(turns) : StreamEnds(t)
    \/ AppClockTick

\* turns and the user's exit
ExitNext ==
    \/ \E content \in UserInputs : SendMessage(content)
    \/ Exit
    \/ \E t \in 1..Len(turns) : RenderTick(t)
    \/ \E t \in 1..Len(turns) : ReceiveDelta(t)
    \/ \E t \in 1..Len(turns) : ReceiveTerminal(t)
    \/ \E t \in 1..Len(turns) : StreamEnds(t)
    \/ \E t \in 1..Len(turns), message \in StreamErrors : StreamThrows(t, message)
    \/ AppClockTick

\* conversations with changes of the model
SwitchNext ==
    \/ \E content \in UserInputs : SendMessage(content)
    \/ \E modelId \in SelectableModels : SelectModel(modelId)
    \/ AppClockTick
    \/ \E t \in 1..Len(turns) : RenderTick(t)
    \/ \E t \in 1..Len(turns) : ReceiveDelta(t)
    \/ \E t \in 1..Len(turns) : StreamEnds(t)
    \/ \E t \in 1..Len(turns), message \in StreamErrors : StreamThrows(t, message)

\* submissions, ticks and the ends of streams, without the text of the chunks
OverlapNext ==
    \/ \E content \in UserInputs : SubmitAgain(content)
    \/ AppClockTick
    \/ \E t \in 1..Len(turns) : RenderTick(t)
    \/ \E t \in 1..Len(turns) : ReceiveTerminal(t)
    \/ \E t \in 1..Len(turns) : StreamEnds(t)
    \/ \E t \in 1..Len(turns), message \in StreamErrors : StreamThrows(t, message)

\* turns that go on streaming while the history is cleared, the model is
\* changed and a further message is sent
StaleNext ==
    \/ \E content \in UserInputs : SubmitAgain(content)
    \/ ClearMessages
    \/ \E modelId \in SelectableModels : SelectModel(modelId)
    \/ AppClockTick
    \/ \E t \in 1..Len(turns) : RenderTick(t)
    \/ \E t \in 1..Len(turns) : ReceiveDelta(t)
    \/ \E t \in 1..Len(turns) : StreamEnds(t)

\* ========================================= AIClientManager and the adapters
Providers == {"anthropic", "openai", "grok", "mistral", "moonshot"}

\* initializeClients: the adapter class constructed for each provider
Clients ==
    [p \in Providers |->
        CASE p = "anthropic" -> "AnthropicClient"
          [] p = "openai" -> "AzureOpenAIClient"
          [] OTHER -> "OpenAICompatibleClient"]

\* values of <PROVIDER>_ENDPOINT: unset, not a URL, a URL
Endpoints == {"", "not a url", "https://res.services.ai.azure.com"}

\* "new URL(endpoint)" returns instead of throwing: the text has a scheme
ParsesAsURL(endpoint) == endpoint \in {"https://res.services.ai.azure.com"}

\* the apiKey and endpoint a client is constructed with; an unset environment
\* variable gives ''
Configs == [apiKey : {"", "key"}, endpoint : Endpoints]

GoodConfig == [apiKey |-> "key", endpoint |-> "https://res.services.ai.azure.com"]

\* a provider can answer requests made with this configuration
Usable(cfg) == cfg.apiKey # "" /\ ParsesAsURL(cfg.endpoint)

\* validateConfig() of the three client classes: the value the promise resolves
\* to; apiAnswers is the outcome of AnthropicClient's test request
validateConfig(class, cfg, apiAnswers) ==
    IF cfg.apiKey = "" THEN "false"
    ELSE IF cfg.endpoint = "" THEN "false"
    ELSE IF class = "AzureOpenAIClient" THEN "true"
    ELSE IF ~ParsesAsURL(cfg.endpoint) THEN "false"
    ELSE IF class = "AnthropicClient" THEN (IF apiAnswers THEN "true" ELSE "false")
    ELSE "true"

\* keys every object literal inherits from Object.prototype: MODELS[key] is a
\* truthy value that has no provider
InheritedKeys == {"constructor"}

\* the model ids callers request
RequestedModels == DOMAIN MODELS \cup InheritedKeys \cup {"gpt-3", ""}

\* a lookup that falls back to an OpenAI model for an id it does not know
RegistryLookupWithFallback(modelId) ==
    IF modelId \in DOMAIN MODELS
    THEN [truthy |-> TRUE, provider |-> MODELS[modelId].provider]
    ELSE [truthy |-> TRUE, provider |-> "openai"]

\* MODELS[modelId]: whether the value is truthy, and its provider field
RegistryLookup(modelId) ==
    IF modelId \in DOMAIN MODELS
    THEN [truthy |-> TRUE, provider |-> MODELS[modelId].provider]
    ELSE [truthy |-> modelId \in InheritedKeys, provider |-> "undefined"]

\* getClient with a fixed provider in place of the model's
AlwaysOpenAI(provider) == [found |-> TRUE, provider |-> "openai"]

\* getClient(provider): this.clients.get(provider), or the throw
getClient(provider) ==
    [found |-> provider \in DOMAIN Clients, provider |-> provider]

\* a value an SDK call throws: an Error with this message
ErrorValue(message) == [isError |-> TRUE, message |-> message]

\* a handler that passes the SDK's message on as it is
handleErrorBare(provider, error) == error.message

\* BaseAIClient.handleError(error)
handleError(provider, error) ==
    IF error.isError
    THEN provider \o " API error: " \o error.message
    ELSE "Unknown " \o provider \o " API error occurred"

\* the name an adapter puts in its "Invalid ... model" message
AdapterLabel(provider) == IF provider = "anthropic" THEN "Anthropic" ELSE provider

\* the message lists passed to streamCompletion
RequestMessages ==
    {<<SystemMessage("You are Azure Code.", 0)>>,
     <<SystemMessage("You are Azure Code.", 0), HistoryMessage("user", 1)>>}

\* what the provider sends: a text increment, an event without text, the stop
\* signal, a text increment that carries the stop signal, a failure
AnthropicEventKinds == {"text", "other", "stop", "error"}
OpenAIEventKinds == {"text", "other", "stop", "text+stop", "error"}

EventKindsOf(provider) ==
    IF provider = "anthropic" THEN AnthropicEventKinds ELSE OpenAIEventKinds

\* the provider's stream: whether the request opens, and its events
NetworksOf(provider) ==
    [requested : {0}, connect : {"ok", "error"},
     events : SeqsUpTo(EventKindsOf(provider), MaxEvents), seen : {<<>>}]

\* the text of the n-th event of a stream, when it carries text
EventText(kind, n) == IF kind \in {"text", "text+stop"} THEN Delta(n) ELSE ""

\* the chunks AnthropicClient yields for one event, and its tokenCount after it
AnthropicStep(local, kind, text) ==
    IF kind = "text"
    THEN LET count == local.tokenCount + clientEstimateTokens(text)
         IN  [local |-> [local EXCEPT !.tokenCount = count],
              chunks |-> <<[delta |-> text, done |-> FALSE, tokenCount |-> count]>>]
    ELSE IF kind = "stop"
    THEN [local |-> local,
          chunks |-> <<[delta |-> "", done |-> TRUE, tokenCount |-> local.tokenCount,
                        finishReason |-> "stop"]>>]
    ELSE [local |-> local, chunks |-> <<>>]

\* the chunks the OpenAI-style clients yield for one event, and their locals
OpenAIStep(local, kind, text) ==
    LET delta == text
        finishReason == IF kind \in {"stop", "text+stop"} THEN "stop" ELSE ""
        fullContent == IF delta # "" THEN local.fullContent \o delta ELSE local.fullContent
        count == IF delta # "" THEN clientEstimateTokens(fullContent) ELSE local.tokenCount
    IN  [local |-> [local EXCEPT !.fullContent = fullContent, !.tokenCount = count],
         chunks |->
            (IF delta # ""
             THEN <<[delta |-> delta, done |-> FALSE, tokenCount |-> count]>>
             ELSE <<>>)
            \o (IF finishReason # ""
                THEN <<[delta |-> "", done |-> TRUE, tokenCount |-> count,
                        finishReason |-> finishReason]>>
                ELSE <<>>)]

AdapterStep(provider, local, kind, text) ==
    IF Clients[provider] = "AnthropicClient"
    THEN AnthropicStep(local, kind, text)
    ELSE OpenAIStep(local, kind, text)

IdleRouter == [pc |-> "idle", modelId |-> "", error |-> NoError, yielded |-> <<>>]

IdleAdapter ==
    [pc |-> "none", provider |-> "", modelId |-> "", messages |-> <<>>,
     local |-> [tokenCount |-> 0, fullContent |-> ""], consumed |-> 0,
     error |-> NoError, yielded |-> <<>>]

IdleNetwork == [requested |-> 0, connect |-> "ok", events |-> <<>>, seen |-> <<>>]

\* the chunk yield* hands to the caller for a chunk of the adapter
ForwardChunk(chunk) == chunk

\* AIClientManager.streamCompletion(messages, modelId), from the caller's first
\* next() to the delegation
RouterRequest(modelId, msgs) ==
    /\ router.pc = "idle"
    /\ LET model == RegistryLookup(modelId)
           client == getClient(model.provider)
       IN  IF ~model.truthy
           THEN /\ router' = [router EXCEPT !.pc = "failed", !.modelId = modelId,
                                            !.error = "Unknown model: " \o modelId]
                /\ UNCHANGED <<adapter, invoked, network>>
           ELSE IF ~client.found
           THEN /\ router' = [router EXCEPT !.pc = "failed", !.modelId = modelId,
                        !.error = "No client configured for provider: " \o model.provider]
                /\ UNCHANGED <<adapter, invoked, network>>
           ELSE /\ router' = [router EXCEPT !.pc = "delegating", !.modelId = modelId]
                /\ adapter' = [IdleAdapter EXCEPT !.pc = "start", !.provider = client.provider,
                                                  !.modelId = modelId, !.messages = msgs]
                /\ invoked' = [invoked EXCEPT ![client.provider] = @ + 1]
                /\ network' \in {n \in NetworksOf(client.provider) :
                                    Usable(env[client.provider]) \/ n.connect = "error"}
    /\ UNCHANGED <<now, ctxVars, appVars, cfgVars, tokVars>>

\* the adapter's streamCompletion up to the opened request; every throw is
\* caught and raised again with handleError
AdapterStart ==
    /\ adapter.pc = "start"
    /\ LET model == RegistryLookup(adapter.modelId)
           conversation == SelectSeq(adapter.messages, NotSystemRole)
           failure ==
               IF ~model.truthy \/ model.provider # adapter.provider
               THEN "Invalid " \o AdapterLabel(adapter.provider) \o " model: " \o adapter.modelId
               ELSE IF Clients[adapter.provider] = "AnthropicClient" /\ conversation = <<>>
               THEN "At least one user or assistant message is required"
               ELSE NoError
       IN  IF failure # NoError
           THEN /\ adapter' = [adapter EXCEPT
                        !.pc = "threw",
                        !.error = handleError(adapter.provider, ErrorValue(failure))]
                /\ UNCHANGED network
           ELSE \* await this.client...create({..., stream: true})
                /\ network' = [network EXCEPT !.requested = @ + 1]
                /\ IF network.connect = "error"
                   THEN adapter' = [adapter EXCEPT
                            !.pc = "threw",
                            !.error = handleError(adapter.provider,
                                                  ErrorValue("Connection error."))]
                   ELSE adapter' = [adapter EXCEPT !.pc = "streaming"]
    /\ UNCHANGED <<router, invoked, now, ctxVars, appVars, cfgVars, tokVars>>

\* the adapter receives the next provider event once the caller asked for the
\* next chunk
AdapterEvent ==
    /\ adapter.pc = "streaming"
    /\ Len(router.yielded) = Len(adapter.yielded)
    /\ network.events # <<>>
    /\ LET kind == Head(network.events)
           step == AdapterStep(adapter.provider, adapter.local, kind,
                               EventText(kind, adapter.consumed + 1))
       IN  IF kind = "error"
           THEN adapter' = [adapter EXCEPT !.pc = "threw",
                                !.error = handleError(adapter.provider, ErrorValue("Connection error."))]
           ELSE adapter' = [adapter EXCEPT !.local = step.local,
                                           !.consumed = @ + 1,
                                           !.yielded = @ \o step.chunks]
    /\ network' = [network EXCEPT !.events = Tail(@), !.seen = Append(@, Head(network.events))]
    /\ UNCHANGED <<router, invoked, now, ctxVars, appVars, cfgVars, tokVars>>

\* the provider's stream is over: the adapter's generator returns
AdapterReturn ==
    /\ adapter.pc = "streaming"
    /\ Len(router.yielded) = Len(adapter.yielded)
    /\ network.events = <<>>
    /\ adapter' = [adapter EXCEPT !.pc = "returned"]
    /\ UNCHANGED <<router, invoked, network, now, ctxVars, appVars, cfgVars, tokVars>>

\* yield*: the router hands the adapter's next chunk to its caller
RouterForward ==
    /\ router.pc = "delegating"
    /\ Len(router.yielded) < Len(adapter.yielded)
    /\ router' = [router EXCEPT
            !.yielded = Append(@, ForwardChunk(adapter.yielded[Len(router.yielded) + 1]))]
    /\ UNCHANGED <<adapter, invoked, network, now, ctxVars, appVars, cfgVars, tokVars>>

\* yield*: the adapter returned, so does the router
RouterReturn ==
    /\ router.pc = "delegating"
    /\ adapter.pc = "returned"
    /\ Len(router.yielded) = Len(adapter.yielded)
    /\ router' = [router EXCEPT !.pc = "done"]
    /\ UNCHANGED <<adapter, invoked, network, now, ctxVars, appVars, cfgVars, tokVars>>

\* yield*: the adapter threw, the error passes through the router
RouterRethrow ==
    /\ router.pc = "delegating"
    /\ adapter.pc = "threw"
    /\ Len(router.yielded) = Len(adapter.yielded)
    /\ router' = [router EXCEPT !.pc = "failed", !.error = adapter.error]
    /\ UNCHANGED <<adapter, invoked, network, now, ctxVars, appVars, cfgVars, tokVars>>

\* AIClientManager.validateProvider(provider)
ValidateProvider(provider) ==
    /\ \E apiAnswers \in {b \in BOOLEAN : b => Usable(env[provider])} :
           validated' = [validated EXCEPT
               ![provider] = validateConfig(Clients[provider], env[provider], apiAnswers)]
    /\ validated'[provider] # validated[provider]
    /\ UNCHANGED <<env, now, ctxVars, appVars, routerVars, tokVars>>

ConfigNext == \E provider \in Providers : ValidateProvider(provider)

RouterNext ==
    \/ \E modelId \in RequestedModels, msgs \in RequestMessages : RouterRequest(modelId, msgs)
    \/ AdapterStart
    \/ AdapterEvent
    \/ AdapterReturn
    \/ RouterForward
    \/ RouterReturn
    \/ RouterRethrow

\* ========================================================== specifications
\* a ContextManager for the default model with the caller's customConfig, and
\* the arguments of its prepareContext calls
CtxInit ==
    /\ config \in {NewContextManager("claude-sonnet-4.5", c) : c \in CustomConfigs}
    /\ now = 0
    /\ systemPrompt \in SystemPrompts
    /\ messages \in Histories
    /\ fileContents \in FileInputs
    /\ calls = 0
    /\ result = <<>>
    /\ prevResult = <<>>
    /\ lastCall = [config |-> config, now |-> now]
    /\ state = InitialAppState
    /\ turns = <<>>
    /\ mounted = TRUE
    /\ router = IdleRouter
    /\ adapter = IdleAdapter
    /\ invoked = [p \in Providers |-> 0]
    /\ network = IdleNetwork
    /\ env = [p \in Providers |-> GoodConfig]
    /\ validated = [p \in Providers |-> "unset"]
    /\ measured = NotMeasured

\* a ContextManager with the caller's customConfig and the history its
\* accounting operations are called on
TokensInit ==
    /\ config \in {NewContextManager("claude-sonnet-4.5", c) : c \in TokenConfigs}
    /\ now = 0
    /\ systemPrompt \in SystemPrompts
    /\ messages \in Histories
    /\ fileContents = [present |-> FALSE, list |-> <<>>]
    /\ calls = 0
    /\ result = <<>>
    /\ prevResult = <<>>
    /\ lastCall = [config |-> config, now |-> now]
    /\ state = InitialAppState
    /\ turns = <<>>
    /\ mounted = TRUE
    /\ router = IdleRouter
    /\ adapter = IdleAdapter
    /\ invoked = [p \in Providers |-> 0]
    /\ network = IdleNetwork
    /\ env = [p \in Providers |-> GoodConfig]
    /\ validated = [p \in Providers |-> "unset"]
    /\ measured = NotMeasured

\* the program as constructed: a ContextManager for the default model, the
\* App before any input, the AIClientManager before any request
ProgramInit ==
    /\ config = NewContextManager("claude-sonnet-4.5", <<>>)
    /\ now = 0
    /\ systemPrompt = "You are Azure Code."
    /\ messages = <<>>
    /\ fileContents = [present |-> FALSE, list |-> <<>>]
    /\ calls = 0
    /\ result = <<>>
    /\ prevResult = <<>>
    /\ lastCall = [config |-> config, now |-> now]
    /\ state = InitialAppState
    /\ turns = <<>>
    /\ mounted = TRUE
    /\ router = IdleRouter
    /\ adapter = IdleAdapter
    /\ invoked = [p \in Providers |-> 0]
    /\ network = IdleNetwork
    /\ env = [p \in Providers |-> GoodConfig]
    /\ validated = [p \in Providers |-> "unset"]
    /\ measured = NotMeasured

\* the program started with some environment: every provider configured alike
RouterInit ==
    /\ config = NewContextManager("claude-sonnet-4.5", <<>>)
    /\ now = 0
    /\ systemPrompt = "You are Azure Code."
    /\ messages = <<>>
    /\ fileContents = [present |-> FALSE, list |-> <<>>]
    /\ calls = 0
    /\ result = <<>>
    /\ prevResult = <<>>
    /\ lastCall = [config |-> config, now |-> now]
    /\ state = InitialAppState
    /\ turns = <<>>
    /\ mounted = TRUE
    /\ router = IdleRouter
    /\ adapter = IdleAdapter
    /\ invoked = [p \in Providers |-> 0]
    /\ network = IdleNetwork
    /\ env \in {[p \in Providers |-> cfg] : cfg \in Configs}
    /\ validated = [p \in Providers |-> "unset"]
    /\ measured = NotMeasured

\* the program started with some environment
ConfigInit ==
    /\ config = NewContextManager("claude-sonnet-4.5", <<>>)
    /\ now = 0
    /\ systemPrompt = "You are Azure Code."
    /\ messages = <<>>
    /\ fileContents = [present |-> FALSE, list |-> <<>>]
    /\ calls = 0
    /\ result = <<>>
    /\ prevResult = <<>>
    /\ lastCall = [config |-> config, now |-> now]
    /\ state = InitialAppState
    /\ turns = <<>>
    /\ mounted = TRUE
    /\ router = IdleRouter
    /\ adapter = IdleAdapter
    /\ invoked = [p \in Providers |-> 0]
    /\ network = IdleNetwork
    /\ env \in [Providers -> Configs]
    /\ validated = [p \in Providers |-> "unset"]
    /\ measured = NotMeasured

\* the callers of the context manager
SpecCtx == CtxInit /\ [][CtxNext]_vars

\* the callers of the token accounting
SpecTokens == TokensInit /\ [][TokensNext]_vars

\* the App's turns
SpecApp == ProgramInit /\ [][AppNext]_vars

\* the App's turns with a timer whose due callbacks do run
SpecAppFair ==
    /\ ProgramInit /\ [][TurnNext]_vars
    /\ \A t \in 1..MaxTurns : WF_vars(t <= Len(turns) /\ RenderTick(t))

\* the App's turns with changes of the model
SpecSwitch == ProgramInit /\ [][SwitchNext]_vars

\* the App's turns and the user's exit
SpecExit == ProgramInit /\ [][ExitNext]_vars

\* the App with every input handleSendMessage receives
SpecCommands == ProgramInit /\ [][CommandNext]_vars

\* turns that outlive their conversation
SpecStale == ProgramInit /\ [][StaleNext]_vars

\* submissions that overlap
SpecOverlap == ProgramInit /\ [][OverlapNext]_vars

\* the requests to the client router
SpecRouter == RouterInit /\ [][RouterNext]_vars

\* the validation of the clients' configuration
SpecConfig == ConfigInit /\ [][ConfigNext]_vars


\* ================================================= context manager: claims
Called == calls > 0

IsHistoryMessage(m) == \E i \in 1..Len(messages) : messages[i] = m

\* the cost the specification charges a message: its recorded tokenCount, else
\* the estimate of its content
ClaimedCost(m) == IF HasTokenCount(m) THEN m.tokenCount ELSE estimateTokens(m.content)

ResultCost == SumSeq([j \in 1..Len(result) |-> ClaimedCost(result[j])])

\* the budget of the latest call
CallBudget == availableBudget(lastCall.config, fileContents)

\* C1: the total token cost of the list returned by prepareContext never
\* exceeds maxTokens - systemPromptTokens - (fileContentTokens if file contents
\* are present) - 1000.
C1_TotalWithinBudget == Called => ResultCost <= CallBudget

\* C2: the first element of the returned list is the synthetic system message
\* built from systemPrompt, and no other element has the system role.
C2_SystemMessageFirstAndOnly ==
    Called =>
        /\ Len(result) >= 1
        /\ result[1] = SystemMessage(systemPrompt, lastCall.now)
        /\ \A j \in 2..Len(result) : result[j].role # "system"

\* a call on a history that holds a system-role message and whose other
\* messages reached the result
C2_Witness ==
    /\ Called
    /\ \E i \in 1..Len(messages) : messages[i].role = "system"
    /\ \E j \in 2..Len(result) : IsHistoryMessage(result[j])

\* C3: any two history messages of the returned list appear in the order they
\* have in the input history (timestamp is the position in the history).
C3_ChronologicalOrder ==
    Called =>
        \A a, b \in 1..Len(result) :
            (a < b /\ IsHistoryMessage(result[a]) /\ IsHistoryMessage(result[b]))
                => result[a].timestamp <= result[b].timestamp

\* the token cost of the last k messages of h
SuffixCost(h, k) == SumSeq([j \in 1..k |-> msgTokens(h[Len(h) - k + j])])

\* the length of the longest suffix of h that costs at most window
LongestSuffixLen(h, window) ==
    CHOOSE k \in 0..Len(h) :
        /\ SuffixCost(h, k) <= window
        /\ \A k2 \in (k + 1)..Len(h) : SuffixCost(h, k2) > window

\* includedMessages of a call of prepareContext
WindowOf(cfg, history) == SlidingWindow(Reverse(history), 1, <<>>, 0, cfg).included

\* C6: the sliding-window block of the result is the longest suffix of the
\* history without its system-role entries that costs at most
\* slidingWindowSize, and it ends the returned list; with ten messages of 600
\* tokens and a window of 4000 it is the six most recent messages.
C6_WindowIsLongestSuffix ==
    Called =>
        LET h == SelectSeq(messages, NotSystemRole)
            window == lastCall.config.slidingWindowSize
            k == LongestSuffixLen(h, window)
            win == WindowOf(lastCall.config, messages)
        IN  /\ win = SubSeq(h, Len(h) - k + 1, Len(h))
            /\ Len(result) >= k
            /\ SubSeq(result, Len(result) - k + 1, Len(result)) = win
            /\ (messages = TenMessages /\ window = 4000)
                    => win = SubSeq(TenMessages, 5, 10)

\* the call on ten messages of 600 tokens with the window of 4000
C6_Witness ==
    /\ Called
    /\ messages = TenMessages
    /\ lastCall.config.slidingWindowSize = 4000
    /\ Len(WindowOf(lastCall.config, messages)) = 6
    /\ SubSeq(result, Len(result) - 5, Len(result)) = SubSeq(TenMessages, 5, 10)

\* C7: when the available budget is zero or negative the returned list holds
\* no history message (only the system message and the file-context message).
C7_NoHistoryWithoutBudget ==
    (Called /\ CallBudget <= 0) =>
        \A j \in 1..Len(result) : ~IsHistoryMessage(result[j])

\* C8: two calls with identical systemPrompt, history and fileContents return
\* identical lists, whatever happened between them.
C8_Idempotent == calls >= 2 => result = prevResult

InResult(m) == \E j \in 1..Len(result) : result[j] = m

\* C21: for every history whose newest message is not system-role, the list
\* returned by prepareContext contains that newest message, whatever its size
\* and whatever older content exists, and every message of the sliding window
\* is in the returned list.
C21_NewestMessagePresent ==
    (Called /\ Len(messages) > 0 /\ messages[Len(messages)].role # "system") =>
        LET win == WindowOf(lastCall.config, messages)
        IN  /\ InResult(messages[Len(messages)])
            /\ \A i \in 1..Len(win) : InResult(win[i])

\* the least k with 4 * k >= n
CeilQuarter(n) == CHOOSE k \in 0..n : 4 * k >= n /\ 4 * (k - 1) < n

\* the recorded count of a message, else the estimate of its content
RecordedOrEstimated(m) ==
    IF HasTokenCount(m) /\ m.tokenCount # 0
    THEN m.tokenCount
    ELSE CeilQuarter(Len(m.content))

WindowTokensOf(cfg, history) == SlidingWindow(Reverse(history), 1, <<>>, 0, cfg).tokens

\* C24: whenever a history message carries a recorded tokenCount,
\* prepareContext and calculateTotalTokens charge exactly that recorded value
\* for it, a recorded 0 on non-empty content included; the content is
\* estimated only when no tokenCount is recorded.
C24_RecordedCountCharged ==
    /\ measured.op = "calculateTotalTokens" =>
        measured.value =
            SumSeq([j \in 1..Len(measured.messages) |-> ClaimedCost(measured.messages[j])])
    /\ Called =>
        LET win == WindowOf(lastCall.config, messages)
        IN  WindowTokensOf(lastCall.config, messages) =
                SumSeq([j \in 1..Len(win) |-> ClaimedCost(win[j])])

IsFileContext(m) == "metadata" \in DOMAIN m /\ m.metadata = "file-context"

\* C25: whenever file contents are supplied, the returned list contains
\* exactly one consolidated file-context message, it is the second element of
\* the result (immediately after the system message) and every history message
\* comes after it, whether or not the backfill phase admits older messages.
C25_FileContextSecond ==
    (Called /\ EmitsFileContext(fileContents)) =>
        /\ Cardinality({j \in 1..Len(result) : IsFileContext(result[j])}) = 1
        /\ Len(result) >= 2
        /\ IsFileContext(result[2])
        /\ \A j \in 1..Len(result) : IsHistoryMessage(result[j]) => j > 2

\* the longest prefix of older, from position i on, whose messages all fit the
\* budget when added one after the other to the running total
RECURSIVE AdmittedPrefix(_, _, _, _)
AdmittedPrefix(older, i, total, budget) ==
    IF i > Len(older) \/ total + msgTokens(older[i]) > budget THEN <<>>
    ELSE <<older[i]>> \o AdmittedPrefix(older, i + 1, total + msgTokens(older[i]), budget)

\* C26: the backfill phase runs only when budget remains after the sliding
\* window, walks the messages older than the window in chronological order,
\* admits a message only if the running total plus its cost stays within the
\* available budget and stops at the first message that does not fit; every
\* backfilled message is placed before the whole sliding-window block.
C26_BackfillIsAdmittedPrefix ==
    Called =>
        LET cfg == lastCall.config
            h == SelectSeq(messages, NotSystemRole)
            win == WindowOf(cfg, messages)
            older == SubSeq(h, 1, Len(h) - Len(win))
            head == SelectSeq(result, LAMBDA m : ~IsHistoryMessage(m))
            total == SumSeq([j \in 1..Len(head) |-> head[j].tokenCount])
                        + WindowTokensOf(cfg, messages)
            expected == IF CallBudget - total > 0
                        THEN AdmittedPrefix(older, 1, total, CallBudget)
                        ELSE <<>>
            front == SubSeq(result, 1, Len(result) - Len(win))
            backfilled == SelectSeq(front, IsHistoryMessage)
        IN  /\ SubSeq(result, Len(result) - Len(win) + 1, Len(result)) = win
            /\ Len(backfilled) = Len(expected)
            /\ {backfilled[j] : j \in 1..Len(backfilled)}
                    = {expected[j] : j \in 1..Len(expected)}

\* C27: no history message appears more than once in the list returned by
\* prepareContext, also when the history holds system-role messages that the
\* sliding window skipped.
C27_NoDuplicates ==
    Called =>
        \A a, b \in 1..Len(result) :
            (a < b /\ IsHistoryMessage(result[a])) => result[a] # result[b]

\* C28: fileContentTokens is subtracted from the available budget if and only
\* if the result contains a file-context message, also when fileContents is
\* given as an empty list.
C28_ReserveChargedIffFileMessage ==
    Called =>
        LET cfg == lastCall.config
            charged == CallBudget = cfg.maxTokens - cfg.systemPromptTokens
                                        - cfg.fileContentTokens - ResponseReserve
            uncharged == CallBudget = cfg.maxTokens - cfg.systemPromptTokens - ResponseReserve
        IN  /\ charged \/ uncharged
            /\ charged <=> \E j \in 1..Len(result) : IsFileContext(result[j])

\* ================================================== stream consumer: claims
\* the deltas of the non-terminal chunks, concatenated in arrival order
RECURSIVE ConcatDeltas(_)
ConcatDeltas(chunks) ==
    IF chunks = <<>> THEN ""
    ELSE (IF Head(chunks).done THEN "" ELSE Head(chunks).delta) \o ConcatDeltas(Tail(chunks))

\* no other invocation of handleSendMessage produced the same assistant id
OwnAssistantId(t) ==
    \A u \in 1..Len(turns) : u # t => turns[u].assistantId # turns[t].assistantId

\* the contents the UI shows for the assistant message of turn t
VisibleContents(t) ==
    {state.messages[j].content :
        j \in {i \in 1..Len(state.messages) : state.messages[i].id = turns[t].assistantId}}

C5_ErrorStopsTimer ==
    [][\A t \in 1..Len(turns) :
          (turns[t].pc = "streaming" /\ turns'[t].pc = "failed") =>
              /\ ~turns'[t].renderInterval
              /\ state'.error \in StreamErrors
              /\ ~state'.isLoading
              /\ state'.messages = state.messages]_vars

\* the turns whose data loop is still waiting for chunks
InFlight == {t \in 1..Len(turns) : turns[t].pc = "streaming"}

\* C11: while a turn is streaming and loading is true, no step starts another
\* turn, that is a second provider stream and a second flush timer.
C11_OneSendInFlight ==
    [][(state.isLoading /\ InFlight # {}) => Len(turns') = Len(turns)]_vars

\* a chunk with done = true is among chunks
HasTerminal(chunks) == \E j \in 1..Len(chunks) : chunks[j].done

\* C12: once a turn has received a chunk with done = true, it takes no further
\* chunk from the sequence and its accumulator no longer changes.
C12_StopsDrainingOnTerminal ==
    [][\A t \in 1..Len(turns) :
          HasTerminal(turns[t].received) =>
              /\ turns'[t].received = turns[t].received
              /\ turns'[t].accumulatedContent = turns[t].accumulatedContent]_vars

\* C13: when a turn's chunk sequence has completed normally the UI shows the
\* accumulated text, and from some point on the turn's timer is stopped for
\* good, given that a due timer callback does run.
C13_FinalFlushThenTimerStops ==
    /\ [](\A t \in 1..Len(turns) :
             (turns[t].pc = "done" /\ OwnAssistantId(t)) =>
                 \A c \in VisibleContents(t) : c = turns[t].accumulatedContent)
    /\ \A t \in 1..MaxTurns :
           (t <= Len(turns) /\ turns[t].pc = "done")
               ~> (t <= Len(turns) /\ ~turns[t].renderInterval)
    /\ [][\A t \in 1..Len(turns) :
             ~turns[t].renderInterval => ~turns'[t].renderInterval]_vars

\* a turn completed after "Hel", its text is shown and its timer is stopped
C13_Witness ==
    \E t \in 1..Len(turns) :
        /\ turns[t].pc = "done"
        /\ ~turns[t].renderInterval
        /\ turns[t].accumulatedContent = "Hel"
        /\ VisibleContents(t) = {"Hel"}

\* a step in which turn t takes a chunk from its sequence
ChunkArrives(t) ==
    /\ Len(turns') = Len(turns)
    /\ turns'[t].received # turns[t].received

\* a step that changes a message the UI already shows
ShownMessageChanges ==
    \E j \in 1..Len(state.messages) :
        j <= Len(state'.messages) /\ state'.messages[j] # state.messages[j]

\* C14: a step in which a chunk arrives changes the turn's accumulator, token
\* count and nothing the UI observes; a message the UI shows changes only in a
\* tick of a flush timer or in the final update of a completed turn.
C14_ChunkArrivalIsInvisible ==
    /\ [][\A t \in 1..Len(turns) :
             ChunkArrives(t) =>
                 /\ state' = state
                 /\ turns'[t].pc = turns[t].pc
                 /\ turns'[t].renderInterval = turns[t].renderInterval]_vars
    /\ [][ShownMessageChanges =>
             \E t \in 1..Len(turns) : RenderTick(t) \/ StreamEnds(t)]_vars

\* three chunks have arrived since the turn began and the UI still shows the
\* empty assistant message
C14_Witness ==
    \E t \in 1..Len(turns) :
        /\ turns[t].pc = "streaming"
        /\ turns[t].accumulatedContent = "Hello, world"
        /\ turns[t].finalTokenCount = 3
        /\ VisibleContents(t) = {""}

\* the conversation of a model: the list the App holds when the model is the
\* active one, what the storage holds for it otherwise
ConversationOf(modelId) ==
    IF modelId = state.currentModel THEN state.messages ELSE getConversation(modelId)

\* C19: a step that switches the active model leaves the conversation of every
\* model as it was, and a step that sends a message changes the conversation
\* of the active model only.
C19_SwitchKeepsConversations ==
    [][\A modelId \in DOMAIN MODELS :
          /\ state'.currentModel # state.currentModel =>
                 ConversationOf(modelId)' = ConversationOf(modelId)
          /\ (state'.currentModel = state.currentModel /\ modelId # state.currentModel) =>
                 ConversationOf(modelId)' = ConversationOf(modelId)]_vars

\* C20: once the user has exited, no turn waits for chunks any more and no
\* flush timer is set; no turn takes a further chunk and the messages stay as
\* they are.
C20_ExitStopsBothLoops ==
    /\ [](~mounted =>
             \A t \in 1..Len(turns) :
                 turns[t].pc # "streaming" /\ ~turns[t].renderInterval)
    /\ [][~mounted => (\A t \in 1..Len(turns) : turns'[t].received = turns[t].received)
                        /\ state'.messages = state.messages]_vars

\* C29: for every input beginning with '/', an unknown command, an alias or a
\* registered command the App does not handle itself, handleSendMessage adds
\* no user or assistant message to the history and opens no provider stream.
C29_CommandsNeverSent ==
    [][\A input \in TypedInputs :
        (Head(input) = "/" /\ SubmitInput(input)) =>
            /\ turns' = turns
            /\ \A j \in 1..Len(state'.messages) :
                \E i \in 1..Len(state.messages) : state.messages[i] = state'.messages[j]]_vars

\* the assistant message of turn t is no longer in the visible history
Removed(t) ==
    \A j \in 1..Len(state.messages) : state.messages[j].id # turns[t].assistantId

\* C30: a turn still streaming when the history is cleared or the model is
\* switched never writes into the new state: its later timer ticks and its
\* final flush change only the message with that turn's assistant id, never
\* re-create a removed message and leave every other message of the visible
\* history unchanged.
C30_StaleTurnWritesNothing ==
    [][\A t \in 1..Len(turns) :
        (Removed(t) /\ (RenderTick(t) \/ StreamEnds(t))) =>
            /\ [state' EXCEPT !.messages = state.messages] = state
            /\ Len(state'.messages) = Len(state.messages)
            /\ \A j \in 1..Len(state.messages) :
                /\ state'.messages[j].id = state.messages[j].id
                /\ state.messages[j].id # turns[t].assistantId
                        => state'.messages[j] = state.messages[j]]_vars

\* ==================================================== client router: claims
IsPrefix(s, t) == Len(s) <= Len(t) /\ s = SubSeq(t, 1, Len(s))

\* C9: a request whose modelId is absent from the registry fails with an
\* error, no adapter's streamCompletion is called and no chunk is yielded.
C9_UnknownModelFailsBeforeAdapter ==
    (router.pc # "idle" /\ router.modelId \notin DOMAIN MODELS) =>
        /\ router.pc = "failed"
        /\ router.error # NoError
        /\ adapter.pc = "none"
        /\ \A p \in Providers : invoked[p] = 0
        /\ router.yielded = <<>>

\* a request for a model id that is not in the registry has failed
C9_Witness ==
    /\ router.pc = "failed"
    /\ router.modelId = "gpt-3"
    /\ router.error = "Unknown model: gpt-3"

\* C10: a request for a registered modelId is delegated to the adapter of the
\* model's provider and to no other, once, and the router yields the chunks
\* that adapter yields, in order, all of them by the time it finishes.
C10_RoutesToProviderAdapter ==
    (router.pc # "idle" /\ router.modelId \in DOMAIN MODELS) =>
        /\ invoked = [p \in Providers |->
                         IF p = MODELS[router.modelId].provider THEN 1 ELSE 0]
        /\ adapter.provider = MODELS[router.modelId].provider
        /\ IsPrefix(router.yielded, adapter.yielded)
        /\ router.pc \in {"done", "failed"} => router.yielded = adapter.yielded

\* a Mistral request finished after the router passed on a text chunk and the
\* terminal chunk
C10_Witness ==
    /\ router.pc = "done"
    /\ router.modelId = "Mistral-Large-3"
    /\ Len(router.yielded) >= 2
    /\ ~router.yielded[1].done
    /\ router.yielded[Len(router.yielded)].done

\* ========================================================= adapters: claims
\* the provider of the model a request names
RequestedProvider == MODELS[router.modelId].provider

\* C15: a request whose model id is not registered, or whose provider's
\* credentials or endpoint are missing or malformed, opens no network request
\* to the provider and yields nothing.
C15_RejectedBeforeNetwork ==
    (/\ router.pc # "idle"
     /\ \/ router.modelId \notin DOMAIN MODELS
        \/ ~Usable(env[RequestedProvider]))
        => (network.requested = 0 /\ router.yielded = <<>>)

RECURSIVE Increments(_, _)
Increments(kinds, n) ==
    IF n = 0 THEN <<>>
    ELSE Increments(kinds, n - 1)
            \o (IF EventText(kinds[n], n) # "" THEN <<EventText(kinds[n], n)>> ELSE <<>>)

\* C17: when a provider stream has ended without error the adapter has yielded
\* one non-terminal chunk per text increment, in order, and then one terminal
\* chunk with delta "", which is the only terminal chunk and the last chunk.
C17_DeltasThenOneTerminal ==
    adapter.pc = "returned" =>
        LET y == adapter.yielded
            n == Len(y)
        IN  /\ n >= 1
            /\ y[n].done /\ y[n].delta = ""
            /\ \A j \in 1..(n - 1) : ~y[j].done
            /\ [j \in 1..(n - 1) |-> y[j].delta]
                   = Increments(network.seen, Len(network.seen))

\* the text of the first n chunks of a sequence of chunks
RECURSIVE TextOf(_, _)
TextOf(chunks, n) == IF n = 0 THEN "" ELSE TextOf(chunks, n - 1) \o chunks[n].delta

\* the chunks the adapter of a provider yields for the first n of the text
\* increments deltas, and its locals after them
RECURSIVE FeedDeltas(_, _, _)
FeedDeltas(provider, deltas, n) ==
    IF n = 0 THEN [local |-> IdleAdapter.local, chunks |-> <<>>]
    ELSE LET before == FeedDeltas(provider, deltas, n - 1)
             step == AdapterStep(provider, before.local, "text", deltas[n])
         IN  [local |-> step.local, chunks |-> before.chunks \o step.chunks]

\* C22: fed the same sequence of text deltas, the Anthropic adapter and the
\* OpenAI-style adapters attach the same running tokenCount to each
\* corresponding chunk; the tokenCount of a chunk is the character-based
\* estimate of the text yielded so far, and it never decreases along a stream.
C22_ChunkCountsConsistent ==
    LET deltas == Increments(network.seen, Len(network.seen))
        a == FeedDeltas("anthropic", deltas, Len(deltas)).chunks
        o == FeedDeltas("openai", deltas, Len(deltas)).chunks
        y == adapter.yielded
    IN  /\ Len(a) = Len(o)
        /\ \A j \in 1..Len(a) : a[j].tokenCount = o[j].tokenCount
        /\ \A j \in 1..Len(y) : y[j].tokenCount = CeilQuarter(Len(TextOf(y, j)))
        /\ \A j \in 1..(Len(y) - 1) : y[j].tokenCount <= y[j + 1].tokenCount

\* C18: validateConfig resolves to a boolean for every adapter, and to false
\* whenever the API key is missing, the endpoint is missing or the endpoint
\* does not parse as a URL.
C18_ValidateConfigRejectsBadConfig ==
    \A p \in Providers :
        validated[p] # "unset" =>
            /\ validated[p] \in {"true", "false"}
            /\ (\/ env[p].apiKey = ""
                \/ env[p].endpoint = ""
                \/ ~ParsesAsURL(env[p].endpoint)) => validated[p] = "false"

====
